---- MODULE Spec2Model ----
(***************************************************************************)
(* GitHubService.py: concurrent fan-out/fan-in aggregation of one user's   *)
(* contributions over the repositories of an organization.                 *)
(*                                                                         *)
(* asyncio is cooperative: a coroutine runs atomically from one await on   *)
(* network I/O to the next, so every action below is "a response arrives   *)
(* and the awaiting coroutine runs until it suspends again".  The requests *)
(* of the tasks handed to asyncio.gather are issued in the same step that  *)
(* reaches the gather: the tasks are started back to back before any       *)
(* response can be handled.                                                *)
(***************************************************************************)
EXTENDS Integers, Sequences, FiniteSets, TLC

VARIABLES
    upstream,   \* the remote API's (unchanging) answers
    op,         \* public operation called
    username,   \* its username argument
    searchParams, \* params.searchParams of getGitHubDataWithSearchParams
    call,       \* number of the current call of the operation
    pc,         \* position of count_user_contributions
    reqRepos,   \* repository-list requests issued by the current call
    totals,     \* total_commits .. total_lines_deleted (lines 61-65)
    tasks,      \* one process_repo coroutine per repository (repo_tasks)
    report,     \* <<GitHubContributions>> once returned, else << >>
    error,      \* <<HTTPException>> once raised to the caller, else << >>
    first,      \* outcome of the first call, kept to compare with the second
    probe       \* a single fetch applied to one response (FetchSpec)

vars == <<upstream, op, username, searchParams, call, pc, reqRepos, totals,
          tasks, report, error, first, probe>>

----------------------------------------------------------------------------
(* Bounds of the explored inputs *)
MaxRepos   == 3    \* repositories in the organization
MaxCommits == 2    \* commits returned by a commits list (commit-rich inputs)
MaxItems   == 2    \* items returned by an issues / pulls list (list-rich inputs)
NumCalls   == 2    \* consecutive calls against the same upstream
MinStatus  == 100  \* HTTP status codes probed by FetchSpec
MaxStatus  == 599

----------------------------------------------------------------------------
(* Python dicts are functions on a set of string keys *)
EmptyDict == [k \in {} |-> 0]

Get(d, k, default) == IF k \in DOMAIN d THEN d[k] ELSE default

Keys == {"commits", "issues", "pulls"}

default_params == [commits |-> TRUE, issues |-> TRUE, pulls |-> TRUE]

ORG == "Dijkstra-Edu"

\* the dict handed to count_user_contributions by the two public operations
Params(o, sp) == IF o = "getAllGitHubData" THEN default_params ELSE sp

----------------------------------------------------------------------------
(* Remote Data Client *)
Response(status, body) == [status_code |-> status, body |-> body]

Returned(v) == [raised |-> FALSE, value |-> v, status_code |-> 0, detail |-> << >>]

HTTPException(status, detail) ==
    [raised |-> TRUE, value |-> << >>, status_code |-> status, detail |-> detail]

fetch_json_lenient(response) == Returned(response.body)

fetch_json(response) ==
    IF response.status_code # 200
    THEN HTTPException(response.status_code, <<"GitHub API error: ", response.body>>)
    ELSE Returned(response.body)

fetch_json_with_client(response) ==
    IF response.status_code # 200
    THEN HTTPException(response.status_code, <<"GitHub API error: ", response.body>>)
    ELSE Returned(response.body)

get_commit_stats_checked(d) ==
    IF d.kind = "json" /\ d.status_code = 200
    THEN Get(d.body, "stats", EmptyDict) ELSE EmptyDict

\* get_commit_stats: d is the fate of one commit-detail request
\*   kind "error"   client.get raises (transport failure)
\*   kind "text"    a response whose body is not JSON (response.json() raises)
\*   kind "json"    a response with a JSON object body, whatever its status
get_commit_stats(d) ==
    IF d.kind = "json" THEN Get(d.body, "stats", EmptyDict) ELSE EmptyDict

----------------------------------------------------------------------------
(* Per-Repository Aggregator: process_repo, one step per await *)
ZeroResult ==
    [commits |-> 0, issues |-> 0, pulls |-> 0, additions |-> 0, deletions |-> 0]

\* a process_repo coroutine before it first runs; req counts the requests it
\* has issued (detail: one counter per item of the commits list)
NewTask(repo) ==
    [pc           |-> "start",
     result       |-> ZeroResult,
     shas         |-> << >>,      \* commit_tasks: indices of the commits with a sha
     pending      |-> {},         \* commit tasks that have not settled
     commit_stats |-> << >>,      \* what each settled commit task returned
     exc          |-> << >>,      \* the exception the coroutine ended with
     req          |-> [commits |-> 0, issues |-> 0, pulls |-> 0,
                       detail  |-> [i \in 1..Len(repo.commits) |-> 0]]]

SelectedAlways(params, key) == TRUE

SelectedDefaultOff(params, key) == Get(params, key, FALSE)

\* params.get(key, True)
Selected(params, key) == Get(params, key, TRUE)

\* lines 128-133 up to the await of the pulls list
EnterPulls(t, params) ==
    IF Selected(params, "pulls")
    THEN [t EXCEPT !.pc = "pulls_wait", !.req.pulls = @ + 1]
    ELSE [t EXCEPT !.pc = "returned"]

\* lines 123-125 up to the await of the issues list
EnterIssues(t, params) ==
    IF Selected(params, "issues")
    THEN [t EXCEPT !.pc = "issues_wait", !.req.issues = @ + 1]
    ELSE EnterPulls(t, params)

\* lines 103-106 up to the await of the commits list
EnterCommits(t, params) ==
    IF Selected(params, "commits")
    THEN [t EXCEPT !.pc = "commits_wait", !.req.commits = @ + 1]
    ELSE EnterIssues(t, params)

LastStat(commit_stats, key) ==
    IF commit_stats = << >> THEN 0
    ELSE Get(commit_stats[Len(commit_stats)], key, 0)

RECURSIVE SumStatsSigned(_, _)
SumStatsSigned(commit_stats, key) ==
    IF commit_stats = << >> THEN 0
    ELSE (IF key = "deletions" THEN 0 - Get(Head(commit_stats), key, 0)
          ELSE Get(Head(commit_stats), key, 0))
         + SumStatsSigned(Tail(commit_stats), key)

\* lines 118-121: result[key] += stats.get(key, 0) over commit_stats, in order
RECURSIVE SumStats(_, _)
SumStats(commit_stats, key) ==
    IF commit_stats = << >> THEN 0
    ELSE Get(Head(commit_stats), key, 0) + SumStats(Tail(commit_stats), key)

\* lines 117-121 once the gather of the commit tasks has returned
AfterStats(t, params) ==
    EnterIssues([t EXCEPT !.result.additions = @ + SumStats(t.commit_stats, "additions"),
                          !.result.deletions = @ + SumStats(t.commit_stats, "deletions")],
                params)

AllIndices(commits, i) == [k \in 1..(Len(commits) - i + 1) |-> i + k - 1]

\* commit_tasks of lines 110-115: the commits that have a sha, in list order
RECURSIVE ShaIndices(_, _)
ShaIndices(commits, i) ==
    IF i > Len(commits) THEN << >>
    ELSE IF commits[i].sha THEN <<i>> \o ShaIndices(commits, i + 1)
    ELSE ShaIndices(commits, i + 1)

RaiseAfterRetry(t, exception) ==
    IF t.pc = "commits_wait" /\ t.req.commits < 2 THEN [t EXCEPT !.req.commits = @ + 1]
    ELSE IF t.pc = "issues_wait" /\ t.req.issues < 2 THEN [t EXCEPT !.req.issues = @ + 1]
    ELSE IF t.pc = "pulls_wait" /\ t.req.pulls < 2 THEN [t EXCEPT !.req.pulls = @ + 1]
    ELSE [t EXCEPT !.pc = "failed", !.exc = <<exception>>]

\* the HTTPException of fetch_json_with_client ends the coroutine
Raise(t, exception) == [t EXCEPT !.pc = "failed", !.exc = <<exception>>]

\* lines 106-117: the commits list arrives
OnCommits(t, repo, params) ==
    LET fetched == fetch_json_with_client(Response(repo.commitsStatus, repo.commits)) IN
    IF fetched.raised THEN Raise(t, fetched)
    ELSE LET commits == fetched.value
             shas    == ShaIndices(commits, 1)
             t1      == [t EXCEPT !.result.commits = Len(commits),
                                  !.shas = shas,
                                  !.pending = 1..Len(shas),
                                  !.commit_stats = [k \in 1..Len(shas) |-> EmptyDict],
                                  !.req.detail = [i \in DOMAIN @ |->
                                        IF \E k \in DOMAIN shas : shas[k] = i
                                        THEN @[i] + 1 ELSE @[i]]]
         IN  IF shas = << >> THEN AfterStats(t1, params)
             ELSE [t1 EXCEPT !.pc = "stats_wait"]

GatherFirst(pending) == TRUE

\* asyncio.gather of line 117 returns when every commit task has settled
GatherSettled(pending) == pending = {}

\* lines 141-147 and 117-121: commit task k settles
OnDetail(t, repo, k, params) ==
    LET stats == get_commit_stats(repo.commits[t.shas[k]].detail)
        t1    == [t EXCEPT !.pending = @ \ {k}, !.commit_stats[k] = stats]
    IN  IF GatherSettled(t1.pending) THEN AfterStats(t1, params) ELSE t1

CountAll(issues) == Len(issues)

\* line 126: sum(1 for issue in issues if 'pull_request' not in issue)
RECURSIVE CountIssues(_)
CountIssues(issues) ==
    IF issues = << >> THEN 0
    ELSE (IF "pull_request" \in DOMAIN Head(issues) THEN 0 ELSE 1)
         + CountIssues(Tail(issues))

\* lines 125-128: the issues list arrives
OnIssues(t, repo, params) ==
    LET fetched == fetch_json_with_client(Response(repo.issuesStatus, repo.issues)) IN
    IF fetched.raised THEN Raise(t, fetched)
    ELSE EnterPulls([t EXCEPT !.result.issues = CountIssues(fetched.value)], params)

\* lines 130-133: the pulls list arrives
OnPulls(t, repo, params) ==
    LET fetched == fetch_json_with_client(Response(repo.pullsStatus, repo.pulls)) IN
    IF fetched.raised THEN Raise(t, fetched)
    ELSE [t EXCEPT !.result.pulls = Len(fetched.value), !.pc = "returned"]

----------------------------------------------------------------------------
(* Organization Aggregator: count_user_contributions *)
ZeroTotals ==
    [total_commits |-> 0, total_issues |-> 0, total_pull_requests |-> 0,
     total_lines_added |-> 0, total_lines_deleted |-> 0]

OneTotals == [ZeroTotals EXCEPT !.total_commits = 1]

\* lines 61-65
InitTotals == ZeroTotals

PartialOf(t) == [exception |-> FALSE, value |-> t.result]

\* what asyncio.gather(..., return_exceptions=True) holds for one task: the
\* dict it returned, or the exception it raised
TaskResult(t) ==
    IF t.pc = "returned" THEN [exception |-> FALSE, value |-> t.result]
    ELSE [exception |-> TRUE, value |-> ZeroResult]

AnySettled(ts) == ts = << >> \/ \E r \in DOMAIN ts : ts[r].pc \in {"returned", "failed"}

AllReturned(ts) == \A r \in DOMAIN ts : ts[r].pc = "returned"

\* line 74: the gather returns when every process_repo task has settled
AllSettled(ts) == \A r \in DOMAIN ts : ts[r].pc \in {"returned", "failed"}

gather_propagating(ts) ==
    [raised  |-> \E r \in DOMAIN ts : ts[r].pc = "failed",
     results |-> [r \in DOMAIN ts |-> TaskResult(ts[r])]]

\* line 74: return_exceptions=True, so the gather itself never raises
gather(ts) ==
    [raised  |-> FALSE,
     results |-> [r \in DOMAIN ts |-> TaskResult(ts[r])]]

RECURSIVE FoldCrossed(_, _)
FoldCrossed(acc, results) ==
    IF results = << >> THEN acc
    ELSE LET result == Head(results) IN
         FoldCrossed(IF ~result.exception
                     THEN [total_commits       |-> acc.total_commits + result.value.commits,
                           total_issues        |-> acc.total_issues + result.value.pulls,
                           total_pull_requests |-> acc.total_pull_requests + result.value.pulls,
                           total_lines_added   |-> acc.total_lines_added + result.value.additions,
                           total_lines_deleted |-> acc.total_lines_deleted + result.value.deletions]
                     ELSE acc,
                     Tail(results))

\* lines 76-82
RECURSIVE Fold(_, _)
Fold(acc, results) ==
    IF results = << >> THEN acc
    ELSE LET result == Head(results) IN
         Fold(IF ~result.exception
              THEN [total_commits       |-> acc.total_commits + result.value.commits,
                    total_issues        |-> acc.total_issues + result.value.issues,
                    total_pull_requests |-> acc.total_pull_requests + result.value.pulls,
                    total_lines_added   |-> acc.total_lines_added + result.value.additions,
                    total_lines_deleted |-> acc.total_lines_deleted + result.value.deletions]
              ELSE acc,
              Tail(results))

\* lines 84-92
GitHubContributions(user, org, t) ==
    [username            |-> user,
     organization        |-> org,
     total_commits       |-> t.total_commits,
     total_issues        |-> t.total_issues,
     total_pull_requests |-> t.total_pull_requests,
     total_lines_added   |-> t.total_lines_added,
     total_lines_deleted |-> t.total_lines_deleted]

CallParams == Params(op, searchParams)

\* lines 25-30 and 57-59: the operation is called and requests the repository list
Call ==
    /\ pc = "idle"
    /\ pc' = "repos_wait"
    /\ reqRepos' = reqRepos + 1
    /\ UNCHANGED <<upstream, op, username, searchParams, call, totals, tasks,
                   report, error, first, probe>>

\* lines 59-74: the repository list arrives; on success every process_repo
\* task is created and started
ReposResponse ==
    /\ pc = "repos_wait"
    /\ LET fetched == fetch_json(Response(upstream.reposStatus, upstream.repos)) IN
       IF fetched.raised
       THEN /\ pc' = "failed"
            /\ error' = <<fetched>>
            /\ UNCHANGED <<totals, tasks>>
       ELSE LET repos == fetched.value IN
            /\ pc' = "gather"
            /\ totals' = InitTotals
            /\ tasks' = [r \in 1..Len(repos) |->
                            EnterCommits(NewTask(repos[r]), CallParams)]
            /\ error' = error
    /\ UNCHANGED <<upstream, op, username, searchParams, call, reqRepos,
                   report, first, probe>>

Unchanged1 == UNCHANGED <<upstream, op, username, searchParams, call, pc, reqRepos,
                          totals, report, error, first, probe>>

CommitsResponse(r) ==
    /\ pc = "gather"
    /\ tasks[r].pc = "commits_wait"
    /\ tasks' = [tasks EXCEPT ![r] = OnCommits(@, upstream.repos[r], CallParams)]
    /\ Unchanged1

DetailResponse(r, k) ==
    /\ pc = "gather"
    /\ tasks[r].pc = "stats_wait"
    /\ k \in tasks[r].pending
    /\ tasks' = [tasks EXCEPT ![r] = OnDetail(@, upstream.repos[r], k, CallParams)]
    /\ Unchanged1

IssuesResponse(r) ==
    /\ pc = "gather"
    /\ tasks[r].pc = "issues_wait"
    /\ tasks' = [tasks EXCEPT ![r] = OnIssues(@, upstream.repos[r], CallParams)]
    /\ Unchanged1

PullsResponse(r) ==
    /\ pc = "gather"
    /\ tasks[r].pc = "pulls_wait"
    /\ tasks' = [tasks EXCEPT ![r] = OnPulls(@, upstream.repos[r], CallParams)]
    /\ Unchanged1

\* lines 74-92: every task has settled; fold the results and return the report
GatherReturn ==
    /\ pc = "gather"
    /\ AllSettled(tasks)
    /\ LET gathered == gather(tasks) IN
       IF gathered.raised
       THEN /\ pc' = "failed"
            /\ error' = <<HTTPException(0, << >>)>>
            /\ UNCHANGED <<totals, report>>
       ELSE LET folded == Fold(totals, gathered.results) IN
            /\ pc' = "done"
            /\ totals' = folded
            /\ report' = <<GitHubContributions(username, ORG, folded)>>
            /\ error' = error
    /\ UNCHANGED <<upstream, op, username, searchParams, call, reqRepos, tasks,
                   first, probe>>

NoOutcome == [report |-> << >>, error |-> << >>, op |-> "", searchParams |-> EmptyDict]

\* what the caller keeps of the first call: its arguments and how it ended
Outcome == IF call = 1
           THEN [report |-> report, error |-> error, op |-> op, searchParams |-> searchParams]
           ELSE first

\* the same operation is called again with the same arguments
NextCall ==
    /\ pc \in {"done", "failed"}
    /\ call < NumCalls
    /\ call' = call + 1
    /\ first' = Outcome
    /\ pc' = "idle"
    /\ reqRepos' = 0
    /\ totals' = ZeroTotals
    /\ tasks' = << >>
    /\ report' = << >>
    /\ error' = << >>
    /\ UNCHANGED <<upstream, op, username, searchParams, probe>>

\* a selection with every key written out, missing keys as true
Explicit(params) == [k \in Keys |-> Get(params, k, TRUE)]

\* the caller calls again through getGitHubDataWithSearchParams with the
\* selection of the previous call written out in full
NextCallExplicit ==
    /\ pc \in {"done", "failed"}
    /\ call < NumCalls
    /\ op = "getAllGitHubData" \/ DOMAIN searchParams # Keys
    /\ call' = call + 1
    /\ first' = Outcome
    /\ op' = "getGitHubDataWithSearchParams"
    /\ searchParams' = Explicit(CallParams)
    /\ pc' = "idle"
    /\ reqRepos' = 0
    /\ totals' = ZeroTotals
    /\ tasks' = << >>
    /\ report' = << >>
    /\ error' = << >>
    /\ UNCHANGED <<upstream, username, probe>>

----------------------------------------------------------------------------
(* The remote API: every answer it can give within the bounds *)
Stats51 == [additions |-> 5, deletions |-> 1]

DetailOk       == [kind |-> "json", status_code |-> 200, body |-> [stats |-> Stats51]]
DetailPartial  == [kind |-> "json", status_code |-> 200, body |-> [stats |-> [additions |-> 3]]]
DetailNoStats  == [kind |-> "json", status_code |-> 200, body |-> [sha |-> "s"]]
Detail404      == [kind |-> "json", status_code |-> 404, body |-> [message |-> "Not Found"]]
Detail404Stats == [kind |-> "json", status_code |-> 404, body |-> [stats |-> Stats51]]
DetailText     == [kind |-> "text", status_code |-> 502, body |-> EmptyDict]
DetailError    == [kind |-> "error", status_code |-> 0, body |-> EmptyDict]

Details == {DetailOk, DetailPartial, DetailNoStats, Detail404, Detail404Stats,
            DetailText, DetailError}

Commit(d)   == [sha |-> TRUE, detail |-> d]
CommitNoSha == [sha |-> FALSE, detail |-> DetailError]

Commits == {Commit(d) : d \in Details} \cup {CommitNoSha}

PlainIssue == [title |-> "issue"]
PullIssue  == [title |-> "issue", pull_request |-> "url"]
PullItem   == [title |-> "pull"]

SeqsUpTo(S, n) == UNION {[1..m -> S] : m \in 0..n}

Repo(name, cs, commits, is, issues, ps, pulls) ==
    [name |-> name,
     commitsStatus |-> cs, commits |-> commits,
     issuesStatus  |-> is, issues  |-> issues,
     pullsStatus   |-> ps, pulls   |-> pulls]

ListStatuses == {200, 404}
RepoListStatuses == {200, 201, 404, 500}

\* organization inputs: up to MaxRepos repositories of fixed content, each with
\* no failing list fetch, a failing commits fetch or a failing issues fetch (a
\* failing pulls fetch is among the list-rich inputs)
Content(i) ==
    CASE i = 1 -> [commits |-> <<Commit(DetailOk), Commit(DetailOk), CommitNoSha>>,
                   issues  |-> <<PlainIssue, PullIssue>>,
                   pulls   |-> <<PullItem, PullItem>>]
      [] i = 2 -> [commits |-> <<Commit(DetailPartial)>>,
                   issues  |-> <<PullIssue>>,
                   pulls   |-> << >>]
      [] i = 3 -> [commits |-> << >>,
                   issues  |-> <<PlainIssue, PlainIssue>>,
                   pulls   |-> <<PullItem>>]
      [] OTHER -> [commits |-> << >>, issues |-> <<PlainIssue>>, pulls |-> << >>]

Failures == {"none", "commits", "issues"}

FailingRepo(i, f) ==
    Repo(i, IF f = "commits" THEN 404 ELSE 200, Content(i).commits,
            IF f = "issues"  THEN 404 ELSE 200, Content(i).issues,
            IF f = "pulls"   THEN 404 ELSE 200, Content(i).pulls)

OrgWorlds ==
    UNION {{[reposStatus |-> s, repos |-> [i \in 1..n |-> FailingRepo(i, f[i])]] :
              s \in RepoListStatuses, f \in [1..n -> Failures]} : n \in 0..MaxRepos}

\* commit-rich inputs: one repository, every commits list within MaxCommits
CommitWorlds ==
    {[reposStatus |-> 200,
      repos |-> <<Repo(1, cs, commits, 200, <<PlainIssue>>, 200, <<PullItem>>)>>] :
        cs \in ListStatuses, commits \in SeqsUpTo(Commits, MaxCommits)}

\* list-rich inputs: one repository, every issues and pulls list within MaxItems
ListWorlds ==
    {[reposStatus |-> 200,
      repos |-> <<Repo(1, 200, <<Commit(DetailOk)>>, w[1], w[2], w[3], w[4])>>] :
        w \in ListStatuses \X SeqsUpTo({PlainIssue, PullIssue}, MaxItems)
              \X ListStatuses \X SeqsUpTo({PullItem}, MaxItems)}

\* every dict over a subset of the three keys
Selections == UNION {[K -> BOOLEAN] : K \in SUBSET Keys}

Operations ==
    {[op |-> "getAllGitHubData", searchParams |-> EmptyDict]}
    \cup {[op |-> "getGitHubDataWithSearchParams", searchParams |-> p] : p \in Selections}

OrgOperations == {o \in Operations : DOMAIN o.searchParams \in {{}, Keys}}

\* the calls made against the commit-rich inputs leave issues and pulls at
\* their defaults
CommitOperations ==
    {o \in Operations : DOMAIN o.searchParams \subseteq {"commits"}}

Inputs == (OrgWorlds \X OrgOperations)
          \cup (CommitWorlds \X CommitOperations)
          \cup (ListWorlds \X Operations)

NoProbe == [response |-> Response(0, << >>), fn |-> "none", out |-> << >>]

Init ==
    /\ \E in \in Inputs :
          /\ upstream = in[1]
          /\ op = in[2].op
          /\ searchParams = in[2].searchParams
    /\ username = "alice"
    /\ call = 1
    /\ pc = "idle"
    /\ reqRepos = 0
    /\ totals = ZeroTotals
    /\ tasks = << >>
    /\ report = << >>
    /\ error = << >>
    /\ first = NoOutcome
    /\ probe = NoProbe

Next ==
    \/ Call
    \/ ReposResponse
    \/ \E r \in DOMAIN tasks : CommitsResponse(r)
    \/ \E r \in DOMAIN tasks : \E k \in tasks[r].pending : DetailResponse(r, k)
    \/ \E r \in DOMAIN tasks : IssuesResponse(r)
    \/ \E r \in DOMAIN tasks : PullsResponse(r)
    \/ GatherReturn
    \/ NextCall
    \/ NextCallExplicit

Spec == Init /\ [][Next]_vars

\* a response to a request that has been issued
Responses ==
    \/ ReposResponse
    \/ \E r \in DOMAIN tasks : CommitsResponse(r)
    \/ \E r \in DOMAIN tasks : \E k \in tasks[r].pending : DetailResponse(r, k)
    \/ \E r \in DOMAIN tasks : IssuesResponse(r)
    \/ \E r \in DOMAIN tasks : PullsResponse(r)

\* LiveSpec: every issued request is eventually answered, and the event loop
\* resumes a coroutine whose gather has completed
\* the calls explored for termination: getAllGitHubData and the selections
\* that name every key and switch commits off
LiveInit ==
    /\ Init
    /\ \/ op = "getAllGitHubData"
       \/ DOMAIN searchParams = Keys /\ ~searchParams["commits"]

LiveSpec == LiveInit /\ [][Next]_vars /\ WF_vars(Responses) /\ WF_vars(GatherReturn)

----------------------------------------------------------------------------
(* One fetch applied to one response, for every status code *)
ProbeBodies == << << >>, <<PullItem>>, [message |-> "Not Found"] >>

FetchInit ==
    /\ upstream = [reposStatus |-> 200, repos |-> << >>]
    /\ op = "getAllGitHubData"
    /\ searchParams = EmptyDict
    /\ username = "alice"
    /\ call = 1
    /\ pc = "idle"
    /\ reqRepos = 0
    /\ totals = ZeroTotals
    /\ tasks = << >>
    /\ report = << >>
    /\ error = << >>
    /\ first = NoOutcome
    /\ \E s \in MinStatus..MaxStatus, b \in DOMAIN ProbeBodies :
          probe = [response |-> Response(s, ProbeBodies[b]), fn |-> "none", out |-> << >>]

UnchangedMain == UNCHANGED <<upstream, op, username, searchParams, call, pc,
                             reqRepos, totals, tasks, report, error, first>>

ProbeFetchJson ==
    /\ probe.fn = "none"
    /\ probe' = [probe EXCEPT !.fn = "fetch_json", !.out = <<fetch_json(probe.response)>>]
    /\ UnchangedMain

ProbeFetchJsonWithClient ==
    /\ probe.fn = "none"
    /\ probe' = [probe EXCEPT !.fn = "fetch_json_with_client",
                              !.out = <<fetch_json_with_client(probe.response)>>]
    /\ UnchangedMain

FetchNext == ProbeFetchJson \/ ProbeFetchJsonWithClient

FetchSpec == FetchInit /\ [][FetchNext]_vars

----------------------------------------------------------------------------
(* Reference values, computed from the upstream's answers alone *)
RECURSIVE SumOver(_, _)
SumOver(S, f) ==
    IF S = {} THEN 0
    ELSE LET x == CHOOSE y \in S : TRUE IN f[x] + SumOver(S \ {x}, f)

TotalFields == {"total_commits", "total_issues", "total_pull_requests",
                "total_lines_added", "total_lines_deleted"}

\* the field of a partial result that a total of the report sums
PartField(total) ==
    CASE total = "total_commits"       -> "commits"
      [] total = "total_issues"        -> "issues"
      [] total = "total_pull_requests" -> "pulls"
      [] total = "total_lines_added"   -> "additions"
      [] total = "total_lines_deleted" -> "deletions"

\* the explicit value of a key of the selection, TRUE when the key is missing
On(key) == IF key \in DOMAIN CallParams THEN CallParams[key] ELSE TRUE

\* the commits of a repository whose detail request produced a JSON object
\* (the request did not raise)
Answered(repo) ==
    {i \in 1..Len(repo.commits) :
        repo.commits[i].sha /\ repo.commits[i].detail.kind = "json"}

StatOf(repo, i, key) ==
    LET body == repo.commits[i].detail.body IN
    IF "stats" \in DOMAIN body /\ key \in DOMAIN body.stats THEN body.stats[key] ELSE 0

\* what a repository contributes when none of its selected list fetches fails
Expected(repo) ==
    [commits   |-> IF On("commits") THEN Len(repo.commits) ELSE 0,
     additions |-> IF On("commits")
                   THEN SumOver(Answered(repo),
                                [i \in Answered(repo) |-> StatOf(repo, i, "additions")])
                   ELSE 0,
     deletions |-> IF On("commits")
                   THEN SumOver(Answered(repo),
                                [i \in Answered(repo) |-> StatOf(repo, i, "deletions")])
                   ELSE 0,
     issues    |-> IF On("issues")
                   THEN Cardinality({i \in 1..Len(repo.issues) :
                                        "pull_request" \notin DOMAIN repo.issues[i]})
                   ELSE 0,
     pulls     |-> IF On("pulls") THEN Len(repo.pulls) ELSE 0]

\* the selected list fetches of a repository that answer with a failure
FailingLists(repo) ==
    {k \in Keys : On(k) /\ (CASE k = "commits" -> repo.commitsStatus
                              [] k = "issues"  -> repo.issuesStatus
                              [] k = "pulls"   -> repo.pullsStatus) # 200}

Repos == upstream.repos

\* the repositories none of whose selected list fetches fails
Sound == {r \in 1..Len(Repos) : FailingLists(Repos[r]) = {}}

ReturnedTasks == {r \in DOMAIN tasks : tasks[r].pc = "returned"}
FailedTasks   == {r \in DOMAIN tasks : tasks[r].pc = "failed"}

\* requests issued by the process_repo tasks of the current call
TaskRequests(t) ==
    t.req.commits + t.req.issues + t.req.pulls
    + SumOver(DOMAIN t.req.detail, t.req.detail)

PerRepoRequests == SumOver(DOMAIN tasks, [r \in DOMAIN tasks |-> TaskRequests(tasks[r])])

----------------------------------------------------------------------------
(* Claims *)

\* C1: each of the five totals of a returned report equals the sum of the
\* corresponding field of the partial results of exactly the process_repo
\* tasks that returned; tasks that failed add nothing.
C1_TotalsSumReturnedPartials ==
    pc = "done" =>
        \A f \in TotalFields :
            report[1][f] = SumOver(ReturnedTasks,
                                   [r \in ReturnedTasks |-> tasks[r].result[PartField(f)]])

C1_Witness ==
    /\ pc = "done"
    /\ Cardinality(ReturnedTasks) >= 2
    /\ FailedTasks # {}
    /\ report[1].total_issues # report[1].total_pull_requests
    /\ report[1].total_lines_added > 0

\* C2: when the repository-list fetch succeeds the call never fails, whatever
\* process_repo tasks fail, and the returned totals contain the contribution
\* of every repository whose fetches succeed.
C2_RepoFailuresAreNotFatal ==
    upstream.reposStatus = 200 =>
        /\ pc # "failed"
        /\ error = << >>
        /\ pc = "done" =>
              \A f \in TotalFields :
                  report[1][f] >= SumOver(Sound,
                                    [r \in Sound |-> Expected(Repos[r])[PartField(f)]])

\* repositories 1 and 3 succeed, 2 fails, and the report holds 1's and 3's counts
C2_Witness ==
    /\ pc = "done"
    /\ Len(Repos) = 3
    /\ ReturnedTasks = {1, 3}
    /\ FailedTasks = {2}
    /\ report[1].total_commits = Len(Repos[1].commits) + Len(Repos[3].commits)
    /\ report[1].total_commits > 0
    /\ report[1].total_issues = 3

\* C3: a non-success answer to the repository-list fetch makes the call fail
\* with an error carrying that status code; no report is produced and no
\* per-repository request is issued.
C3_RepoListFailureIsFatal ==
    (upstream.reposStatus \notin 200..299 /\ pc \notin {"idle", "repos_wait"}) =>
        /\ pc = "failed"
        /\ Len(error) = 1
        /\ error[1].raised
        /\ error[1].status_code = upstream.reposStatus
        /\ report = << >>
        /\ tasks = << >>
        /\ PerRepoRequests = 0

C3_Witness ==
    /\ pc = "failed"
    /\ upstream.reposStatus = 404
    /\ Len(Repos) > 0
    /\ error[1].status_code = 404
    /\ report = << >>

\* C4: a field explicitly set to false in the selection has total 0 in the
\* returned report, for every upstream content.
C4_DisabledFieldIsZero ==
    (pc = "done" /\ op = "getGitHubDataWithSearchParams") =>
        /\ ("commits" \in DOMAIN searchParams /\ ~searchParams["commits"])
              => report[1].total_commits = 0
        /\ ("issues" \in DOMAIN searchParams /\ ~searchParams["issues"])
              => report[1].total_issues = 0
        /\ ("pulls" \in DOMAIN searchParams /\ ~searchParams["pulls"])
              => report[1].total_pull_requests = 0

\* commits are disabled, the repository has commits, and the enabled fields count
C4_Witness ==
    /\ pc = "done"
    /\ op = "getGitHubDataWithSearchParams"
    /\ "commits" \in DOMAIN searchParams /\ ~searchParams["commits"]
    /\ Len(Repos) > 0 /\ Len(Repos[1].commits) > 0 /\ Repos[1].commitsStatus = 200
    /\ report[1].total_commits = 0
    /\ report[1].total_issues > 0
    /\ report[1].total_pull_requests > 0

\* C5: fetch_json and fetch_json_with_client return the body's JSON value for
\* every 2xx status and fail with an error carrying the status code and the
\* response body for every other status.
C5_FetchSucceedsOnEvery2xx ==
    probe.fn # "none" =>
        LET out == probe.out[1] IN
        IF probe.response.status_code \in 200..299
        THEN ~out.raised /\ out.value = probe.response.body
        ELSE /\ out.raised
             /\ out.status_code = probe.response.status_code
             /\ out.detail[2] = probe.response.body

C7_FailedRepoContributesNothing ==
    /\ pc = "done" =>
          \A f \in TotalFields :
              report[1][f] = SumOver(Sound,
                                [r \in Sound |-> Expected(Repos[r])[PartField(f)]])
    /\ \A r \in FailedTasks :
          /\ r \notin Sound
          /\ tasks[r].req.commits <= 1
          /\ tasks[r].req.issues <= 1
          /\ tasks[r].req.pulls <= 1
          /\ \A i \in DOMAIN tasks[r].req.detail : tasks[r].req.detail[i] <= 1

\* r1 = 3 commits (+10/-2), 1 non-PR issue, 2 pulls; r2's commits fetch fails
C7_Witness ==
    /\ pc = "done"
    /\ Len(Repos) = 2
    /\ Len(Repos[1].commits) = 3
    /\ FailingLists(Repos[1]) = {}
    /\ Repos[2].commitsStatus = 404
    /\ FailedTasks = {2}
    /\ \A k \in Keys : On(k)
    /\ report[1].total_commits = 3
    /\ report[1].total_issues = 1
    /\ report[1].total_pull_requests = 2
    /\ report[1].total_lines_added = 10
    /\ report[1].total_lines_deleted = 2

\* the issues list of task t has been fetched and counted
IssuesCounted(t, repo) ==
    t.req.issues > 0 /\ t.pc # "issues_wait" /\ repo.issuesStatus = 200

\* C8: the issues count of a repository is the number of items of its issues
\* list that carry no pull-request marker.
C8_IssuesExcludePullRequests ==
    \A r \in DOMAIN tasks :
        IssuesCounted(tasks[r], Repos[r]) =>
            tasks[r].result.issues =
                Cardinality({i \in 1..Len(Repos[r].issues) :
                                "pull_request" \notin DOMAIN Repos[r].issues[i]})

\* two items, one of them marked, count as one issue
C8_Witness ==
    \E r \in DOMAIN tasks :
        /\ IssuesCounted(tasks[r], Repos[r])
        /\ Repos[r].issues = <<PullIssue, PlainIssue>>
        /\ tasks[r].result.issues = 1

\* C9: the second call, with the same arguments against the same upstream,
\* ends as the first did (same report or same error), whatever the order in
\* which the responses of either call arrive.
C9_RepeatedCallSameReport ==
    (call >= 2 /\ pc \in {"done", "failed"}
     /\ op = first.op /\ DOMAIN searchParams = DOMAIN first.searchParams
     /\ \A k \in DOMAIN searchParams : searchParams[k] = first.searchParams[k]) =>
        /\ Len(report) = Len(first.report)
        /\ Len(error) = Len(first.error)
        /\ report # << >> => report[1] = first.report[1]
        /\ error # << >> => error[1] = first.error[1]

C9_Witness ==
    /\ call = 2
    /\ op = first.op
    /\ searchParams = first.searchParams
    /\ pc = "done"
    /\ Len(Repos) >= 2
    /\ Len(tasks[1].shas) >= 2
    /\ FailedTasks # {}
    /\ report[1].total_lines_added > 0
    /\ report[1] = first.report[1]

\* C10: an empty repository list yields a report with all five totals 0 and
\* no request besides the repository-list request.
C10_EmptyOrganization ==
    (upstream.reposStatus = 200 /\ Len(Repos) = 0) =>
        /\ pc # "failed"
        /\ reqRepos <= 1
        /\ PerRepoRequests = 0
        /\ pc = "done" => report = <<GitHubContributions(username, ORG, ZeroTotals)>>

C10_Witness ==
    /\ pc = "done"
    /\ upstream.reposStatus = 200
    /\ Len(Repos) = 0
    /\ reqRepos = 1
    /\ report[1].total_commits = 0

Settled(t) == t.pc \in {"returned", "failed"}

\* C11: the running totals stay untouched and no report exists until every
\* process_repo task has settled, and a failed task stops no sibling: when the
\* report is built every repository whose fetches succeed has issued all its
\* requests and returned.
C11_FoldOnlyAfterBarrier ==
    /\ (totals # ZeroTotals \/ report # << >> \/ pc = "done") =>
          \A r \in DOMAIN tasks : Settled(tasks[r])
    /\ pc = "done" =>
          \A r \in Sound :
              /\ tasks[r].pc = "returned"
              /\ \A k \in Keys : On(k) => tasks[r].req[k] = 1
    /\ \A r \in DOMAIN tasks :
          (pc = "gather" /\ tasks[r].pc = "issues_wait") => ENABLED IssuesResponse(r)

\* one task has failed while a sibling still waits, and nothing is folded yet
C11_Witness ==
    /\ pc = "gather"
    /\ FailedTasks # {}
    /\ \E r \in DOMAIN tasks : tasks[r].pc = "issues_wait" /\ tasks[r].result.commits > 0
    /\ totals = ZeroTotals
    /\ report = << >>

\* requests of the current call that have been issued and not answered
Outstanding ==
    (IF pc = "repos_wait" THEN 1 ELSE 0)
    + SumOver(DOMAIN tasks,
              [r \in DOMAIN tasks |->
                  (IF tasks[r].pc \in {"commits_wait", "issues_wait", "pulls_wait"}
                   THEN 1 ELSE 0) + Cardinality(tasks[r].pending)])

\* C12: there is no cancellation or deadline: the call has neither returned
\* nor failed in any state where a request is still unanswered, so a single
\* request that never gets its response keeps the call from ending.
C12_NoReturnWhileRequestOutstanding ==
    Outstanding > 0 => (pc \notin {"done", "failed"} /\ report = << >> /\ error = << >>)

\* every request but one commit detail has been answered and the call still waits
C12_Witness ==
    /\ pc = "gather"
    /\ Outstanding = 1
    /\ Len(Repos) >= 2
    /\ \E r \in DOMAIN tasks :
          /\ tasks[r].pc = "stats_wait"
          /\ Cardinality(tasks[r].pending) = 1
          /\ \A q \in DOMAIN tasks \ {r} : Settled(tasks[q])

\* the commits list of task t has been fetched
CommitsCounted(t, repo) ==
    t.req.commits > 0 /\ t.pc # "commits_wait" /\ repo.commitsStatus = 200

\* C13: the commits count is the number of items of the commits list, whether
\* or not a commit has a sha or its detail request fails, and a detail request
\* is issued for exactly the commits that have a sha.
C13_CommitsCountIsListLength ==
    \A r \in DOMAIN tasks :
        IF CommitsCounted(tasks[r], Repos[r])
        THEN /\ tasks[r].result.commits = Len(Repos[r].commits)
             /\ \A i \in 1..Len(Repos[r].commits) :
                   tasks[r].req.detail[i] = IF Repos[r].commits[i].sha THEN 1 ELSE 0
        ELSE \A i \in 1..Len(Repos[r].commits) : tasks[r].req.detail[i] = 0

\* a commit without a sha and a commit whose detail request raises: both count
C13_Witness ==
    \E r \in DOMAIN tasks :
        /\ tasks[r].pc = "returned"
        /\ Repos[r].commits = <<CommitNoSha, Commit(DetailError)>>
        /\ tasks[r].result.commits = 2
        /\ tasks[r].result.additions = 0
        /\ tasks[r].req.detail = <<0, 1>>

\* C14: within one call every endpoint is requested at most once, also after
\* the request failed.
C14_NoRetry ==
    /\ reqRepos <= 1
    /\ \A r \in DOMAIN tasks :
          /\ \A k \in Keys : tasks[r].req[k] <= 1
          /\ \A i \in DOMAIN tasks[r].req.detail : tasks[r].req.detail[i] <= 1
    /\ pc = "failed" => reqRepos = 1

\* the call has ended with a repository whose issues fetch failed once
C14_Witness ==
    /\ pc = "done"
    /\ reqRepos = 1
    /\ \E r \in FailedTasks :
          /\ Repos[r].issuesStatus = 404
          /\ tasks[r].req.issues = 1
          /\ tasks[r].req.commits = 1
          /\ tasks[r].req.pulls = 0

\* C15: a call whose selection misses keys, or getAllGitHubData, ends as the
\* call of getGitHubDataWithSearchParams with those keys written out as true
\* does, and every report names the hardcoded organization.
C15_MissingKeyMeansTrue ==
    /\ pc = "done" => report[1].organization = "Dijkstra-Edu"
    /\ (call = 2 /\ pc \in {"done", "failed"}
        /\ op = "getGitHubDataWithSearchParams"
        /\ DOMAIN searchParams = Keys
        /\ \A k \in Keys : searchParams[k] = (IF first.op = "getAllGitHubData" THEN TRUE
                                              ELSE Get(first.searchParams, k, TRUE))) =>
          /\ Len(report) = Len(first.report)
          /\ Len(error) = Len(first.error)
          /\ report # << >> => report[1] = first.report[1]

\* the first call left commits out, the second names commits: true
C15_Witness ==
    /\ call = 2
    /\ pc = "done"
    /\ first.op = "getGitHubDataWithSearchParams"
    /\ "commits" \notin DOMAIN first.searchParams
    /\ DOMAIN searchParams = Keys
    /\ searchParams["commits"]
    /\ report[1].total_commits > 0
    /\ report[1] = first.report[1]

\* C16: with an upstream that reports non-negative additions and deletions,
\* the running totals, every partial result and every returned report are
\* non-negative in every reachable state.
C16_NonNegative ==
    /\ \A f \in TotalFields : totals[f] >= 0
    /\ \A r \in DOMAIN tasks :
          \A f \in TotalFields : tasks[r].result[PartField(f)] >= 0
    /\ report # << >> => \A f \in TotalFields : report[1][f] >= 0

C16_Witness ==
    /\ pc = "done"
    /\ report[1].total_lines_deleted > 0
    /\ report[1].total_lines_added > 0
    /\ totals.total_commits > 0

\* C17: if every issued request is eventually answered, a call that has
\* requested the repository list eventually ends, with a report or with the
\* error of the repository-list fetch.
C17_CallTerminates ==
    (pc = "repos_wait") ~> (\/ pc = "done" /\ Len(report) = 1
                            \/ pc = "failed" /\ Len(error) = 1)

C17_Witness ==
    /\ pc = "done"
    /\ Len(Repos) >= 2
    /\ FailedTasks # {}
    /\ \E r \in ReturnedTasks : Len(tasks[r].shas) >= 2

\* C18: within one repository the issues request is issued only after the
\* commits list and every commit-detail request have been answered, the pulls
\* request only after the issues list has been returned, and after a failed
\* list fetch no further request of that repository is issued.
C18_BranchesRunInOrder ==
    \A r \in DOMAIN tasks :
        LET t == tasks[r]  repo == Repos[r] IN
        /\ (On("commits") /\ t.req.issues + t.req.pulls > 0) =>
              CommitsCounted(t, repo) /\ t.pending = {} /\ t.pc # "stats_wait"
        /\ (On("issues") /\ t.req.pulls > 0) => IssuesCounted(t, repo)
        /\ (t.req.commits > 0 /\ t.pc # "commits_wait" /\ repo.commitsStatus # 200) =>
              /\ t.pc = "failed"
              /\ t.req.issues = 0 /\ t.req.pulls = 0
              /\ \A i \in DOMAIN t.req.detail : t.req.detail[i] = 0
        /\ (t.req.issues > 0 /\ t.pc # "issues_wait" /\ repo.issuesStatus # 200) =>
              t.pc = "failed" /\ t.req.pulls = 0

\* the pulls request is out after commits, both details and issues were answered
C18_Witness ==
    \E r \in DOMAIN tasks :
        /\ tasks[r].pc = "pulls_wait"
        /\ tasks[r].req.pulls = 1
        /\ tasks[r].req.issues = 1
        /\ Len(tasks[r].shas) = 2
        /\ tasks[r].pending = {}

\* C19: a disabled field issues no request to its endpoint (for commits: no
\* commits-list and no commit-detail request, and both line totals are 0 as
\* well), so a failing endpoint of a disabled field never makes a repository fail.
C19_DisabledFieldIssuesNoRequest ==
    /\ \A r \in DOMAIN tasks :
          /\ \A k \in Keys : ~On(k) => tasks[r].req[k] = 0
          /\ ~On("commits") => \A i \in DOMAIN tasks[r].req.detail : tasks[r].req.detail[i] = 0
          /\ tasks[r].pc = "failed" =>
                \/ On("commits") /\ Repos[r].commitsStatus # 200
                \/ On("issues") /\ Repos[r].issuesStatus # 200
                \/ On("pulls") /\ Repos[r].pullsStatus # 200
    /\ (pc = "done" /\ ~On("commits")) =>
          /\ report[1].total_commits = 0
          /\ report[1].total_lines_added = 0
          /\ report[1].total_lines_deleted = 0

\* commits are disabled, the commits endpoint would fail, the repository returns
C19_Witness ==
    /\ pc = "done"
    /\ ~On("commits")
    /\ \E r \in ReturnedTasks :
          /\ Repos[r].commitsStatus = 404
          /\ Len(Repos[r].commits) > 0
          /\ tasks[r].req.commits = 0
          /\ tasks[r].result.issues > 0

SameDict(a, b) == DOMAIN a = DOMAIN b /\ \A k \in DOMAIN a : a[k] = b[k]

\* C20: get_commit_stats never raises and never looks at the status: every
\* settled commit task holds the stats object of the response body when the
\* body is a JSON object with one, and the empty object otherwise, also for a
\* non-2xx response; a returned repository's additions and deletions are the
\* sums of those objects.
C20_StatsIgnoreStatus ==
    \A r \in DOMAIN tasks :
        LET t == tasks[r] IN
        /\ \A k \in DOMAIN t.commit_stats :
              LET d == Repos[r].commits[t.shas[k]].detail IN
              k \notin t.pending =>
                  IF d.kind = "json" /\ "stats" \in DOMAIN d.body
                  THEN SameDict(t.commit_stats[k], d.body.stats)
                  ELSE DOMAIN t.commit_stats[k] = {}
        /\ (t.pc \notin {"start", "commits_wait", "stats_wait"}
            /\ CommitsCounted(t, Repos[r])) =>
              /\ t.result.additions = SumOver(DOMAIN t.commit_stats,
                    [k \in DOMAIN t.commit_stats |-> Get(t.commit_stats[k], "additions", 0)])
              /\ t.result.deletions = SumOver(DOMAIN t.commit_stats,
                    [k \in DOMAIN t.commit_stats |-> Get(t.commit_stats[k], "deletions", 0)])

\* a 404 response carrying stats adds them, a 404 response without adds nothing
C20_Witness ==
    \E r \in DOMAIN tasks :
        /\ tasks[r].pc = "returned"
        /\ Repos[r].commits = <<Commit(Detail404Stats), Commit(Detail404)>>
        /\ tasks[r].result.additions = 5
        /\ tasks[r].result.deletions = 1

====
